---- MODULE Spec2Model ----
(***************************************************************************)
(* A model of chug's document/annotation webdataset stage:                 *)
(*   src/src/chug/webdataset/doc_anno_pipe.py  DocProcessor,               *)
(*                                             _decode_samples             *)
(*   src/src/chug/wds/helpers.py                expand_urls,               *)
(*                                             pytorch_worker_seed,        *)
(*                                             the error handler registry  *)
(*                                                                         *)
(* Python strings that the code splits or parses are sequences of          *)
(* one-character strings; exceptions are the names of their classes.       *)
(***************************************************************************)
EXTENDS Integers, Sequences, FiniteSets, TLC

VARIABLES
    processor,   \* the DocProcessor instance (its constructor's fields)
    sample,      \* the sample of the last DocProcessor.__call__
    decoded,     \* the outcome of the last DocProcessor.__call__
    data,        \* _decode_samples: the upstream sequence of samples
    decoder,     \* _decode_samples: which decoder the adapter was bound to
    handler,     \* _decode_samples: the name the error handler was looked up by
    pc,          \* _decode_samples: the generator's position
    pos,         \* _decode_samples: how many inputs were pulled from `data`
    exn,         \* _decode_samples: the exception in flight ("none" if none)
    yielded,     \* _decode_samples: the results handed to the consumer, in order
    skipped,     \* _decode_samples: indices of the inputs skipped
    stopped,     \* the consumer gave up pulling
    environ,     \* pytorch_worker_seed: os.environ and the worker context
    seeds,       \* pytorch_worker_seed: the calls made and the seed each returned
    urlcall      \* expand_urls: the arguments of the last call and its outcome

vars == <<processor, sample, decoded, data, decoder, handler, pc, pos, exn,
          yielded, skipped, stopped, environ, seeds, urlcall>>

docVars == <<processor, sample, decoded>>
streamVars == <<data, decoder, handler, pc, pos, exn, yielded, skipped, stopped>>
seedVars == <<environ, seeds>>

(***************************************************************************)
(* Bounds of the model.                                                    *)
(***************************************************************************)
MaxFrames == 2
MaxIndices == 2
NumChannels == 2
MaxInput == 3
MaxWorld == 2
MaxWorkers == 2
MaxIncrement == 1
MaxCalls == 2
MaxGroups == 2

(***************************************************************************)
(* Strings.                                                                *)
(***************************************************************************)
IsPrefixAt(s, sep, i) ==
    /\ i + Len(sep) - 1 <= Len(s)
    /\ SubSeq(s, i, i + Len(sep) - 1) = sep

\* str.split(sep): scan left to right, cut at each non-overlapping occurrence
RECURSIVE SplitFrom(_, _, _, _)
SplitFrom(s, sep, i, cur) ==
    IF i > Len(s) THEN <<cur>>
    ELSE IF IsPrefixAt(s, sep, i)
         THEN <<cur>> \o SplitFrom(s, sep, i + Len(sep), <<>>)
         ELSE SplitFrom(s, sep, i + 1, Append(cur, s[i]))

Split(s, sep) == SplitFrom(s, sep, 1, <<>>)

RECURSIVE Join(_, _)
Join(parts, sep) ==
    IF Len(parts) = 0 THEN <<>>
    ELSE IF Len(parts) = 1 THEN parts[1]
    ELSE parts[1] \o sep \o Join(Tail(parts), sep)

tif == <<"t", "i", "f">>
tiff == <<"t", "i", "f", "f">>
png == <<"p", "n", "g">>
pdf == <<"p", "d", "f">>
Semi == <<";">>

(***************************************************************************)
(* Images. An image object is what the code holds in `image`: the opened   *)
(* container ("file"), a plain PIL image ("pil", what convert and          *)
(* frombuffer return) or what image_preprocess returned.  `page` is the    *)
(* frame whose pixels it holds, `pre` how often image_preprocess was       *)
(* applied, `chan` 0 for a whole image and c >= 1 for the c-th element     *)
(* obtained by iterating over it.                                          *)
(***************************************************************************)
Img(type, page, mode, pre) ==
    [type |-> type, page |-> page, mode |-> mode, pre |-> pre, chan |-> 0]

Ok(image) == [exc |-> "none", image |-> image]
Raise(exc, image) == [exc |-> exc, image |-> image]

\* Image.open(b)
ImageOpen == Img("file", 0, "native", 0)

\* image.seek(frame)
Seek(image, n_frames, frame) ==
    IF image.type = "tensor" THEN Raise("AttributeError", image)
    ELSE IF image.type = "file"
         THEN IF frame < n_frames
              THEN Ok([image EXCEPT !.page = frame])
              ELSE Raise("EOFError", image)
         ELSE IF frame = 0 THEN Ok(image) ELSE Raise("EOFError", image)

\* image.load()
Load(image) ==
    IF image.type = "tensor" THEN Raise("AttributeError", image) ELSE Ok(image)

\* image.convert(mode)
Convert(image, mode) ==
    IF image.type = "tensor" THEN Raise("AttributeError", image)
    ELSE Ok([image EXCEPT !.type = "pil", !.mode = mode])

\* self.image_preprocess(image): the caller's transform, which returns a
\* tensor (torchvision's ToTensor) or a PIL image
image_preprocess(self, image) ==
    [image EXCEPT !.type = self.pre_out, !.pre = image.pre + 1]

\* list.extend(x) iterates x: a tensor yields its slices along the first
\* dimension, a PIL image is not iterable
Iterate(image) ==
    IF image.type = "tensor"
    THEN [exc |-> "none",
          items |-> [c \in 1..NumChannels |-> [image EXCEPT !.chan = c]]]
    ELSE [exc |-> "TypeError", items |-> <<>>]

(***************************************************************************)
(* Samples and annotations.  A raw sample holds the `json` bytes, the      *)
(* image fields present (by extension) and the number of frames (pages)    *)
(* of its image container.  What the caller's anno_preprocess makes of     *)
(* the annotation is part of the sample: it raises, returns the page       *)
(* annotation alone, or returns (page annotation, info).                   *)
(***************************************************************************)
AnnoKeys == {"text", "target"}

PageIndexSeqs == UNION {[1..n -> 0..(MaxFrames - 1)] : n \in 0..MaxIndices}

Infos ==
    {[has_pi |-> FALSE, page_indices |-> <<>>, has_np |-> FALSE, num_pages |-> 0]}
    \cup {[has_pi |-> FALSE, page_indices |-> <<>>, has_np |-> TRUE, num_pages |-> n] :
            n \in 1..MaxFrames}
    \cup {[has_pi |-> TRUE, page_indices |-> p, has_np |-> FALSE, num_pages |-> 0] :
            p \in PageIndexSeqs}
    \cup {[has_pi |-> TRUE, page_indices |-> p, has_np |-> TRUE, num_pages |-> n] :
            p \in PageIndexSeqs, n \in 1..MaxFrames}

NoInfo == [has_pi |-> FALSE, page_indices |-> <<>>, has_np |-> FALSE, num_pages |-> 0]

FieldSets == {{}, {png}, {tif}, {tiff}, {pdf}, {tif, png}, {png, pdf}}

Annotations ==
    {[json |-> "bad", ret |-> "dict", info |-> NoInfo],
     [json |-> "ok", ret |-> "raise", info |-> NoInfo],
     [json |-> "ok", ret |-> "dict", info |-> NoInfo]}
    \cup {[json |-> "ok", ret |-> "tuple", info |-> i] : i \in Infos}

Samples ==
    {[anno |-> a, fields |-> f, frames |-> n] :
        a \in Annotations, f \in FieldSets, n \in 1..MaxFrames}

\* json.loads(sample['json'])
JsonLoads(s) ==
    IF s.anno.json = "ok" THEN [exc |-> "none"] ELSE [exc |-> "JSONDecodeError"]

\* info.get('page_indices', [0])
InfoPageIndices(info) == IF info.has_pi THEN info.page_indices ELSE <<0>>

\* info.get('num_pages', 1)
InfoNumPages(info) == IF info.has_np THEN info.num_pages ELSE 1

\* the page annotation anno_preprocess builds: one value per requested page
PageAnnoFor(page_indices) ==
    [k \in AnnoKeys |->
        [i \in 1..Len(page_indices) |-> [key |-> k, page |-> page_indices[i]]]]

\* self.anno_preprocess(anno, generator=self.generator)
anno_preprocess(s) ==
    IF s.anno.ret = "raise"
    THEN [exc |-> "AnnoError", is_tuple |-> FALSE,
          page_anno |-> PageAnnoFor(<<>>), info |-> NoInfo]
    ELSE IF s.anno.ret = "dict"
    THEN [exc |-> "none", is_tuple |-> FALSE,
          page_anno |-> PageAnnoFor(<<0>>), info |-> NoInfo]
    ELSE [exc |-> "none", is_tuple |-> TRUE,
          page_anno |-> PageAnnoFor(InfoPageIndices(s.anno.info)),
          info |-> s.anno.info]

(***************************************************************************)
(* DocProcessor.                                                           *)
(***************************************************************************)
ImageKeys ==
    {Join(<<tif, tiff, png>>, Semi), Join(<<pdf, png>>, Semi), Join(<<png, tif>>, Semi)}

\* _USE_AGPL_PYMUPDF and the import of fitz: fitz is the module or None
FitzValues == {"None", "module"}

\* DocProcessor.__init__
DocProcessor_init(image_key, image_fmt, pre_out, fitz) ==
    [image_ext |-> Split(image_key, Semi),
     image_fmt |-> image_fmt,
     squeeze_pages |-> TRUE,
     pre_out |-> pre_out,
     fitz |-> fitz]

Processors ==
    {DocProcessor_init(k, f, o, z) :
        k \in ImageKeys, f \in {"L", ""}, o \in {"tensor", "pil"}, z \in FitzValues}

\* the warning of _decode_image_pages
MismatchWarning == [level |-> "warning", what |-> "page count mismatch"]
AnnoErrorLog == [level |-> "error", what |-> "annotation"]

\* the body of the for loop of _decode_image_pages, from page i on
RECURSIVE ImagePagesLoop(_, _, _, _, _, _)
ImagePagesLoop(self, image, num_image_pages, num_anno_pages, page_indices, i) ==
    IF i > Len(page_indices) THEN Ok(image)
    ELSE
      LET at == IF num_image_pages > 1
                THEN Seek(image, num_image_pages, page_indices[i])
                ELSE IF num_anno_pages # 1
                     THEN Raise("AssertionError", image)
                     ELSE Load(image)
      IN IF at.exc # "none" THEN at
         ELSE
           LET conv == IF self.image_fmt # ""
                       THEN Convert(at.image, self.image_fmt)
                       ELSE at
           IN IF conv.exc # "none" THEN conv
              ELSE ImagePagesLoop(self, image_preprocess(self, conv.image),
                                  num_image_pages, num_anno_pages, page_indices, i + 1)

\* a decode that treats the page count mismatch as fatal
_decode_image_pages_strict(self, s, ext, page_indices, num_anno_pages) ==
    LET num_image_pages == s.frames
        loop == ImagePagesLoop(self, ImageOpen, num_image_pages, num_anno_pages,
                               page_indices, 1)
    IN IF num_image_pages # num_anno_pages
       THEN [exc |-> "ValueError", is_list |-> FALSE, items |-> <<ImageOpen>>,
             log |-> <<MismatchWarning>>]
       ELSE [exc |-> loop.exc, is_list |-> FALSE, items |-> <<loop.image>>,
             log |-> <<>>]

\* DocProcessor._decode_image_pages: returns (image, num_image_pages)
_decode_image_pages(self, s, ext, page_indices, num_anno_pages) ==
    LET num_image_pages == s.frames
        log == IF num_image_pages # num_anno_pages THEN <<MismatchWarning>> ELSE <<>>
        loop == ImagePagesLoop(self, ImageOpen, num_image_pages, num_anno_pages,
                               page_indices, 1)
    IN [exc |-> loop.exc, is_list |-> FALSE, items |-> <<loop.image>>, log |-> log]

\* the body of the for loop of _decode_pdf_pages, from page i on; `image`
\* is unbound until the first page was rendered
RECURSIVE PdfPagesLoop(_, _, _, _, _, _)
PdfPagesLoop(self, image, bound, page_count, page_indices, i) ==
    IF i > Len(page_indices) THEN [exc |-> "none", image |-> image, bound |-> bound]
    ELSE IF page_indices[i] >= page_count
    THEN [exc |-> "ValueError", image |-> image, bound |-> bound]
    ELSE
      LET page == Img("pil", page_indices[i], "RGB", 0)
          conv == IF self.image_fmt # "" THEN Convert(page, self.image_fmt) ELSE Ok(page)
      IN PdfPagesLoop(self, image_preprocess(self, conv.image), TRUE,
                      page_count, page_indices, i + 1)

\* DocProcessor._decode_pdf_pages: returns (pages, num_image_pages)
_decode_pdf_pages(self, s, ext, page_indices, num_anno_pages) ==
    IF self.fitz = "None"
    THEN [exc |-> "AssertionError", is_list |-> TRUE, items |-> <<>>, log |-> <<>>]
    ELSE
      LET loop == PdfPagesLoop(self, ImageOpen, FALSE, s.frames, page_indices, 1)
      IN IF loop.exc # "none"
         THEN [exc |-> loop.exc, is_list |-> TRUE, items |-> <<>>, log |-> <<>>]
         ELSE IF ~loop.bound
         THEN [exc |-> "UnboundLocalError", is_list |-> TRUE, items |-> <<>>, log |-> <<>>]
         ELSE [exc |-> "none", is_list |-> TRUE, items |-> <<loop.image>>, log |-> <<>>]

\* the outcome of DocProcessor.__call__: the exception raised or the
\* record returned, and the log entries written on the way
Raised(exc, log) ==
    [status |-> "raise", exc |-> exc,
     image |-> [is_list |-> TRUE, items |-> <<>>],
     anno |-> [squeezed |-> FALSE, fields |-> PageAnnoFor(<<>>)],
     log |-> log]

Returned(image, anno, log) ==
    [status |-> "ok", exc |-> "none", image |-> image, anno |-> anno, log |-> log]

NotCalled ==
    [status |-> "none", exc |-> "none",
     image |-> [is_list |-> TRUE, items |-> <<>>],
     anno |-> [squeezed |-> FALSE, fields |-> PageAnnoFor(<<>>)],
     log |-> <<>>]

\* for ext in self.image_ext: if ext in sample: ... break
RECURSIVE FirstPresent(_, _, _)
FirstPresent(image_ext, s, i) ==
    IF i > Len(image_ext) THEN <<>>
    ELSE IF image_ext[i] \in s.fields THEN <<image_ext[i]>>
    ELSE FirstPresent(image_ext, s, i + 1)

\* page_images.extend(images)
Extend(dec) ==
    IF dec.is_list THEN [exc |-> "none", items |-> dec.items]
    ELSE Iterate(dec.items[1])

\* the assertion left out
AssertPageImagesOff(page_images) == TRUE

\* assert len(page_images), 'No page images present'
AssertPageImages(page_images) == Len(page_images) > 0

\* if self.squeeze_pages and num_decode_pages == 1
SqueezeCond(self, num_decode_pages) == self.squeeze_pages /\ num_decode_pages = 1

\* the end of __call__: the squeeze and the record
Finish(self, page_images, page_anno, num_decode_pages, log) ==
    IF SqueezeCond(self, num_decode_pages)
    THEN IF Len(page_images) = 0 \/ \E k \in AnnoKeys : Len(page_anno[k]) = 0
         THEN Raised("IndexError", log)
         ELSE Returned([is_list |-> FALSE, items |-> <<page_images[1]>>],
                       [squeezed |-> TRUE,
                        fields |-> [k \in AnnoKeys |-> <<page_anno[k][1]>>]],
                       log)
    ELSE Returned([is_list |-> TRUE, items |-> page_images],
                  [squeezed |-> FALSE, fields |-> page_anno],
                  log)

\* DocProcessor.__call__
DocProcessor_call(self, s) ==
    LET js == JsonLoads(s) IN
    IF js.exc # "none" THEN Raised(js.exc, <<>>)
    ELSE
    LET ap == anno_preprocess(s) IN
    IF ap.exc # "none" THEN Raised(ap.exc, <<AnnoErrorLog>>)
    ELSE
    LET page_indices == IF ap.is_tuple THEN InfoPageIndices(ap.info) ELSE <<0>>
        num_decode_pages == Len(page_indices)
        num_anno_pages == IF ap.is_tuple THEN InfoNumPages(ap.info) ELSE 1
        ext == FirstPresent(self.image_ext, s, 1)
        dec == IF ext = <<>>
               THEN [exc |-> "none", is_list |-> TRUE, items |-> <<>>, log |-> <<>>]
               ELSE IF ext[1] = pdf
               THEN _decode_pdf_pages(self, s, ext[1], page_indices, num_anno_pages)
               ELSE _decode_image_pages(self, s, ext[1], page_indices, num_anno_pages)
    IN
    IF dec.exc # "none" THEN Raised(dec.exc, dec.log)
    ELSE
    LET ext_images == Extend(dec) IN
    IF ext_images.exc # "none" THEN Raised(ext_images.exc, dec.log)
    ELSE IF ~AssertPageImages(ext_images.items) THEN Raised("AssertionError", dec.log)
    ELSE Finish(self, ext_images.items, ap.page_anno, num_decode_pages, dec.log)

(***************************************************************************)
(* SpecDoc: a DocProcessor is called on a sample.                           *)
(***************************************************************************)
IdleStream ==
    /\ data = <<>>
    /\ decoder = "none"
    /\ handler = "none"
    /\ pc = "idle"
    /\ pos = 0
    /\ exn = "none"
    /\ yielded = <<>>
    /\ skipped = <<>>
    /\ stopped = FALSE

IdleSeed ==
    /\ environ = <<>>
    /\ seeds = {}

IdleUrls == urlcall = <<>>

DocInit ==
    /\ processor \in Processors
    /\ sample \in Samples
    /\ decoded = NotCalled
    /\ IdleStream
    /\ IdleSeed
    /\ IdleUrls

\* decoded = processor(sample)
Call ==
    /\ decoded.status = "none"
    /\ decoded' = DocProcessor_call(processor, sample)
    /\ UNCHANGED <<processor, sample, streamVars, seedVars, urlcall>>

DocNext == Call

SpecDoc == DocInit /\ [][DocNext]_vars

(***************************************************************************)
(* Claims about DocProcessor (SpecDoc).                                    *)
(***************************************************************************)
Called == decoded.status # "none"

AnnoOk(s) == s.anno.json = "ok" /\ s.anno.ret # "raise"

\* the page indices and the declared page count __call__ works with
PageIndicesOf(s) ==
    IF s.anno.ret = "tuple" THEN InfoPageIndices(s.anno.info) ELSE <<0>>

NumAnnoPagesOf(s) ==
    IF s.anno.ret = "tuple" THEN InfoNumPages(s.anno.info) ELSE 1

ChosenExt(self, s) == FirstPresent(self.image_ext, s, 1)

IsRaster(self, s) == ChosenExt(self, s) # <<>> /\ ChosenExt(self, s)[1] # pdf

IsPdf(self, s) == ChosenExt(self, s) # <<>> /\ ChosenExt(self, s)[1] = pdf

\* a sample the decoder can decode: an image field is present, its
\* container holds every requested page, and the declared page count is
\* the container's; a PDF needs the rendering backend
Decodable(self, s) ==
    /\ AnnoOk(s)
    /\ ChosenExt(self, s) # <<>>
    /\ \A i \in 1..Len(PageIndicesOf(s)) : PageIndicesOf(s)[i] < s.frames
    /\ NumAnnoPagesOf(s) = s.frames
    /\ IsPdf(self, s) => self.fitz = "module"

\* the preprocessed decode of page p
PageImage(self, s, p) ==
    [type |-> self.pre_out,
     page |-> p,
     mode |-> IF self.image_fmt # "" THEN self.image_fmt
              ELSE IF IsPdf(self, s) THEN "RGB" ELSE "native",
     pre |-> 1,
     chan |-> 0]

\* C4 (as claimed): for page_indices of length N > 1 the record's image
\* collection has length N, its i-th element the preprocessed decode of page
\* page_indices[i], and the annotation fields come unsqueezed with length N,
\* on the raster and on the PDF path.
C4_MultiPageRecord ==
    (Called /\ Decodable(processor, sample) /\ Len(PageIndicesOf(sample)) > 1) =>
        /\ decoded.status = "ok"
        /\ decoded.image.is_list
        /\ decoded.image.items =
             [i \in 1..Len(PageIndicesOf(sample)) |->
                 PageImage(processor, sample, PageIndicesOf(sample)[i])]
        /\ ~decoded.anno.squeezed
        /\ \A k \in AnnoKeys :
             Len(decoded.anno.fields[k]) = Len(PageIndicesOf(sample))

\* C5 (as claimed): for a single-page annotation (page_indices = [0],
\* num_pages = 1, or no info) with squeezing on, the record's image is the
\* preprocessed image of page 0 itself, not a sequence and not an element
\* from inside that image, and every annotation field is its sole element.
C5_SqueezedSingleImage ==
    (/\ Called
     /\ Decodable(processor, sample)
     /\ processor.squeeze_pages
     /\ PageIndicesOf(sample) = <<0>>
     /\ NumAnnoPagesOf(sample) = 1) =>
        /\ decoded.status = "ok"
        /\ ~decoded.image.is_list
        /\ decoded.image.items = <<PageImage(processor, sample, 0)>>
        /\ decoded.anno.squeezed
        /\ \A k \in AnnoKeys :
             decoded.anno.fields[k] = <<[key |-> k, page |-> 0]>>

\* the same sample with a declared page count that matches the container
Matched(s) ==
    [s EXCEPT !.anno.ret = "tuple",
              !.anno.info.has_pi = (s.anno.ret = "tuple" /\ s.anno.info.has_pi),
              !.anno.info.has_np = TRUE,
              !.anno.info.num_pages = s.frames]

Mismatch(self, s) ==
    AnnoOk(s) /\ IsRaster(self, s) /\ s.frames # NumAnnoPagesOf(s)

Warnings(log) == Len(SelectSeq(log, LAMBDA e : e.level = "warning"))

SameOutcome(a, b) ==
    /\ a.status = b.status
    /\ a.exc = b.exc
    /\ a.image = b.image
    /\ a.anno = b.anno

\* C6 (as claimed): a raster sample whose frame count differs from the
\* declared num_pages still decodes: where the sample would decode with a
\* matching num_pages, it decodes with the mismatch too, and logs one warning.
C6_MismatchNeverFatal ==
    (/\ Called
     /\ Mismatch(processor, sample)
     /\ DocProcessor_call(processor, Matched(sample)).status = "ok") =>
        /\ decoded.status = "ok"
        /\ Warnings(decoded.log) = 1

\* C6 (amended): a raster sample whose frame count differs from the declared
\* num_pages logs exactly one warning; with more than one frame (or no page
\* requested) the call ends exactly as it does with a matching num_pages;
\* with a single frame and a page requested it raises AssertionError.
C6_MismatchWarnsAndSingleFrameAsserts ==
    (Called /\ Mismatch(processor, sample)) =>
        /\ Warnings(decoded.log) = 1
        /\ (sample.frames > 1 \/ PageIndicesOf(sample) = <<>>) =>
              SameOutcome(decoded, DocProcessor_call(processor, Matched(sample)))
        /\ (sample.frames = 1 /\ PageIndicesOf(sample) # <<>>) =>
              (decoded.status = "raise" /\ decoded.exc = "AssertionError")

\* a multi-frame raster sample with a mismatching num_pages was decoded
C6_Witness ==
    /\ Called
    /\ Mismatch(processor, sample)
    /\ sample.frames > 1
    /\ decoded.status = "ok"
    /\ Warnings(decoded.log) = 1

(***************************************************************************)
(* The error handler registry.                                             *)
(***************************************************************************)
\* what a handler does with an exception: returns True ("continue"),
\* returns False ("stop") or raises ("reraise")
HandlerOutcome(fn) ==
    CASE fn = "log_and_continue" -> "continue"
      [] fn = "ignore_and_continue" -> "continue"
      [] fn = "warn_and_continue" -> "continue"
      [] fn = "ignore_and_stop" -> "stop"
      [] fn = "warn_and_stop" -> "stop"
      [] fn = "dump_and_reraise" -> "reraise"
      [] fn = "reraise_exception" -> "reraise"

\* _error_handlers
_error_handlers ==
    [n \in {"log_and_continue", "ignore_and_continue", "warn_and_continue",
            "ignore_and_stop", "warn_and_stop", "dump_and_reraise",
            "reraise_exception"} |-> n]

\* a registry that falls back to log_and_continue for an unknown name
get_error_handler_lenient(name) ==
    IF name \in DOMAIN _error_handlers THEN _error_handlers[name] ELSE "log_and_continue"

\* get_error_handler(name)
get_error_handler(name) ==
    IF name \in DOMAIN _error_handlers THEN _error_handlers[name] ELSE "dump_and_reraise"

HandlerNames == DOMAIN _error_handlers \cup {"no_such_handler"}

(***************************************************************************)
(* _decode_samples.  An input is a sample with its __key__ (its position   *)
(* in the shard); `is_dict` tells a mapping from any other sample.  The    *)
(* adapter's decoder is the pipeline's DocProcessor or a stub whose        *)
(* outcome the sample names: it raises, returns None, a mapping (with or   *)
(* without a __key__ of its own) or some other value.                      *)
(***************************************************************************)
NoSample ==
    [anno |-> [json |-> "bad", ret |-> "dict", info |-> NoInfo],
     fields |-> {}, frames |-> 1]

StubBodies ==
    {[is_dict |-> TRUE, stub |-> o, doc |-> NoSample] :
        o \in {"raise", "none", "dict", "dict_with_key", "other"}}
    \cup {[is_dict |-> FALSE, stub |-> "dict_with_key", doc |-> NoSample]}

TwoPages ==
    [json |-> "ok", ret |-> "tuple",
     info |-> [has_pi |-> TRUE, page_indices |-> <<0, 0>>,
               has_np |-> FALSE, num_pages |-> 0]]

StreamDocSamples ==
    {[anno |-> [json |-> "ok", ret |-> "dict", info |-> NoInfo],
      fields |-> {png}, frames |-> 1],
     [anno |-> [json |-> "ok", ret |-> "dict", info |-> NoInfo],
      fields |-> {pdf}, frames |-> 1],
     [anno |-> TwoPages, fields |-> {}, frames |-> 1],
     [anno |-> TwoPages, fields |-> {pdf}, frames |-> 1],
     [anno |-> [json |-> "bad", ret |-> "dict", info |-> NoInfo],
      fields |-> {png}, frames |-> 1]}

DocBodies == {[is_dict |-> TRUE, stub |-> "doc", doc |-> d] : d \in StreamDocSamples}

\* the inputs of length n over a set of bodies, keyed by position
Inputs(bodies, n) ==
    {[i \in 1..n |-> [key |-> i, is_dict |-> f[i].is_dict,
                      stub |-> f[i].stub, doc |-> f[i].doc]] :
        f \in [1..n -> bodies]}

\* create_doc_anno_pipe: the DocProcessor the adapter is bound to
PipeProcessors ==
    {DocProcessor_init(k, "L", o, "None") : k \in ImageKeys, o \in {"tensor", "pil"}}

\* the processor of create_doc_anno_pipe's defaults, not called
IdleDoc ==
    /\ processor = DocProcessor_init(Join(<<tif, tiff, png>>, Semi), "L", "tensor", "None")
    /\ sample = NoSample
    /\ decoded = NotCalled

NoKey == [has |-> FALSE, val |-> 0]
DecoderKey == [has |-> TRUE, val |-> 0]

\* decoder(sample)
Decoder(kind, self, s) ==
    IF kind = "DocProcessor"
    THEN LET d == DocProcessor_call(self, s.doc)
         IN [status |-> d.status, exc |-> d.exc, is_dict |-> TRUE,
             key |-> NoKey, value |-> d]
    ELSE CASE s.stub = "raise" ->
                [status |-> "raise", exc |-> "StubError", is_dict |-> FALSE,
                 key |-> NoKey, value |-> NotCalled]
           [] s.stub = "none" ->
                [status |-> "none", exc |-> "none", is_dict |-> FALSE,
                 key |-> NoKey, value |-> NotCalled]
           [] s.stub = "dict" ->
                [status |-> "ok", exc |-> "none", is_dict |-> TRUE,
                 key |-> NoKey, value |-> NotCalled]
           [] s.stub = "dict_with_key" ->
                [status |-> "ok", exc |-> "none", is_dict |-> TRUE,
                 key |-> DecoderKey, value |-> NotCalled]
           [] s.stub = "other" ->
                [status |-> "ok", exc |-> "none", is_dict |-> FALSE,
                 key |-> NoKey, value |-> NotCalled]

\* a key copy that keeps the key the decoder set (dict.setdefault)
SetKeyDefault(s, result) ==
    IF s.is_dict /\ result.is_dict /\ ~result.key.has
    THEN [result EXCEPT !.key = [has |-> TRUE, val |-> s.key]]
    ELSE result

\* if isinstance(sample, dict) and isinstance(result, dict):
\*     result["__key__"] = sample.get("__key__")
SetKey(s, result) ==
    IF s.is_dict /\ result.is_dict
    THEN [result EXCEPT !.key = [has |-> TRUE, val |-> s.key]]
    ELSE result

Init ==
    /\ handler \in HandlerNames
    /\ \/ /\ decoder = "stub"
          /\ IdleDoc
          /\ \E n \in 0..MaxInput : data \in Inputs(StubBodies, n)
       \/ /\ decoder = "DocProcessor"
          /\ processor \in PipeProcessors
          /\ sample = NoSample
          /\ decoded = NotCalled
          /\ \E n \in 0..MaxInput : data \in Inputs(DocBodies, n)
    /\ pc = "start"
    /\ pos = 0
    /\ exn = "none"
    /\ yielded = <<>>
    /\ skipped = <<>>
    /\ stopped = FALSE
    /\ IdleSeed
    /\ IdleUrls

otherVars == <<processor, sample, decoded, decoder, handler, data, seedVars, urlcall>>

\* the consumer calls next(): the generator starts, or resumes after its yield
Resume ==
    /\ pc \in {"start", "yielded"}
    /\ ~stopped
    /\ pc' = "fetch"
    /\ UNCHANGED <<pos, exn, yielded, skipped, stopped, otherVars>>

\* a generator that pulls the next input while it is suspended at its yield
FetchAhead ==
    /\ pc \in {"fetch", "yielded"}
    /\ IF pos < Len(data)
       THEN pos' = pos + 1 /\ pc' = "decode"
       ELSE pos' = pos /\ pc' = "done"
    /\ UNCHANGED <<exn, yielded, skipped, stopped, otherVars>>

\* for sample in data: the next input is pulled, or the input has ended
Fetch ==
    /\ pc = "fetch"
    /\ IF pos < Len(data)
       THEN pos' = pos + 1 /\ pc' = "decode"
       ELSE pos' = pos /\ pc' = "done"
    /\ UNCHANGED <<exn, yielded, skipped, stopped, otherVars>>

\* try: result = decoder(sample), and what follows a result
Decode ==
    /\ pc = "decode"
    /\ LET result == Decoder(decoder, processor, data[pos])
       IN \/ /\ result.status = "raise"
             /\ exn' = result.exc
             /\ pc' = "handle"
             /\ UNCHANGED <<yielded, skipped>>
          \/ /\ result.status = "none"
             /\ skipped' = Append(skipped, pos)
             /\ pc' = "fetch"
             /\ UNCHANGED <<exn, yielded>>
          \/ /\ result.status = "ok"
             /\ yielded' = Append(yielded, [src |-> pos, result |-> SetKey(data[pos], result)])
             /\ pc' = "yielded"
             /\ UNCHANGED <<exn, skipped>>
    /\ UNCHANGED <<pos, stopped, otherVars>>

\* a handler whose "continue" ends the loop (break for continue)
HandleBreaks ==
    /\ pc = "handle"
    /\ LET outcome == HandlerOutcome(get_error_handler(handler))
       IN \/ /\ outcome \in {"continue", "stop"}
             /\ exn' = "none"
             /\ pc' = "done"
             /\ UNCHANGED skipped
          \/ /\ outcome = "reraise"
             /\ pc' = "raised"
             /\ UNCHANGED <<exn, skipped>>
    /\ UNCHANGED <<pos, yielded, stopped, otherVars>>

\* except Exception as exn: if handler(exn): continue else: break
Handle ==
    /\ pc = "handle"
    /\ LET outcome == HandlerOutcome(get_error_handler(handler))
       IN \/ /\ outcome = "continue"
             /\ skipped' = Append(skipped, pos)
             /\ exn' = "none"
             /\ pc' = "fetch"
          \/ /\ outcome = "stop"
             /\ exn' = "none"
             /\ pc' = "done"
             /\ UNCHANGED skipped
          \/ /\ outcome = "reraise"
             /\ pc' = "raised"
             /\ UNCHANGED <<exn, skipped>>
    /\ UNCHANGED <<pos, yielded, stopped, otherVars>>

\* the consumer stops pulling: the generator stays where it is suspended
Abandon ==
    /\ pc \in {"start", "yielded"}
    /\ ~stopped
    /\ stopped' = TRUE
    /\ UNCHANGED <<pc, pos, exn, yielded, skipped, otherVars>>

Next == Resume \/ Fetch \/ Decode \/ Handle \/ Abandon

Spec == Init /\ [][Next]_vars

(***************************************************************************)
(* Claims about _decode_samples (Spec).                                    *)
(***************************************************************************)
DecoderOf(i) == Decoder(decoder, processor, data[i])

\* the inputs the loop is through with
Processed == IF pc \in {"decode", "handle"} THEN pos - 1 ELSE pos

StripKey(entry) == [entry EXCEPT !.result.key = NoKey]

\* the results of the inputs 1..k whose decoder call returned a value
RECURSIVE DecoderResults(_)
DecoderResults(k) ==
    IF k = 0 THEN <<>>
    ELSE IF DecoderOf(k).status = "ok"
         THEN Append(DecoderResults(k - 1),
                     [src |-> k, result |-> [DecoderOf(k) EXCEPT !.key = NoKey]])
         ELSE DecoderResults(k - 1)

\* C1: under a handler that always continues, what was yielded is exactly
\* the decoder results (up to __key__) of the inputs gone through whose
\* decoder call neither raised nor returned None, in input order, and
\* the sequence ends only when the input has.
C1_YieldsNonRaisingInOrder ==
    handler \in {"log_and_continue", "ignore_and_continue", "warn_and_continue"} =>
        /\ [j \in 1..Len(yielded) |-> StripKey(yielded[j])] = DecoderResults(Processed)
        /\ pc # "raised"
        /\ pc = "done" => pos = Len(data)

\* three inputs, the second raising: the results of the first and the third
C1_Witness ==
    /\ handler = "log_and_continue"
    /\ pc = "done"
    /\ Len(data) = 3
    /\ DecoderOf(1).status = "ok"
    /\ DecoderOf(2).status = "raise"
    /\ DecoderOf(3).status = "ok"
    /\ Len(yielded) = 2
    /\ yielded[1].src = 1
    /\ yielded[2].src = 3

\* what the claim takes each handler name to signal
Signals(name) ==
    IF name \in {"log_and_continue", "ignore_and_continue", "warn_and_continue"}
    THEN "continue"
    ELSE IF name \in {"ignore_and_stop", "warn_and_stop"} THEN "stop"
    ELSE "reraise"

\* C2: under a handler that signals stop (one that returns False, one that
\* re-raises, or the one an unknown name gets), a raising input is the last
\* one consumed and nothing is yielded after it: the generator ends, or the
\* exception reaches the consumer.
C2_StopEndsSequence ==
    Signals(handler) # "continue" =>
        /\ \A i \in 1..pos :
              DecoderOf(i).status = "raise" =>
                 /\ i = pos
                 /\ \A j \in 1..Len(yielded) : yielded[j].src < i
                 /\ \/ pc \in {"decode", "handle"}
                    \/ Signals(handler) = "stop" /\ pc = "done"
                    \/ /\ Signals(handler) = "reraise"
                       /\ pc = "raised"
                       /\ exn = DecoderOf(i).exc
        /\ \A m \in 1..Len(skipped) : DecoderOf(skipped[m]).status = "none"

\* the first input raised under an unknown handler name: nothing yielded,
\* the exception propagated, the rest of the input untouched
C2_Witness ==
    /\ handler = "no_such_handler"
    /\ Len(data) >= 2
    /\ pos = 1
    /\ pc = "raised"
    /\ exn = DecoderOf(1).exc
    /\ yielded = <<>>

\* C3: a mapping result yielded for a mapping input carries that input's
\* __key__, whatever key the decoder set and however many inputs were
\* skipped before it.
C3_KeyOfOwnSample ==
    \A j \in 1..Len(yielded) :
        LET y == yielded[j]
            s == data[y.src]
        IN (s.is_dict /\ y.result.is_dict) =>
              y.result.key = [has |-> TRUE, val |-> s.key]

\* a result whose decoder set a key of its own, yielded right after a skipped input
C3_Witness ==
    \E j \in 1..Len(yielded) :
        /\ yielded[j].src > 1
        /\ \E m \in 1..Len(skipped) : skipped[m] = yielded[j].src - 1
        /\ data[yielded[j].src].is_dict
        /\ DecoderOf(yielded[j].src).key = DecoderKey
        /\ yielded[j].result.key = [has |-> TRUE, val |-> yielded[j].src]

NoImage(self, s) == ChosenExt(self, s) = <<>>

\* C7: for a sample with none of the configured image extensions
\* DocProcessor.__call__ raises; the adapter yields no record for it, and
\* under log_and_continue skips it and goes on with the next input.
C7_NoImageRaisesAndIsSkipped ==
    decoder = "DocProcessor" =>
        \A i \in 1..Len(data) :
            NoImage(processor, data[i].doc) =>
               /\ DecoderOf(i).status = "raise"
               /\ \A j \in 1..Len(yielded) : yielded[j].src # i
               /\ get_error_handler(handler) = "log_and_continue" =>
                     /\ i <= Processed => \E m \in 1..Len(skipped) : skipped[m] = i
                     /\ pc # "raised"
                     /\ pc = "done" => pos = Len(data)

\* an input without image was skipped and the input after it was yielded
C7_Witness ==
    /\ decoder = "DocProcessor"
    /\ handler = "log_and_continue"
    /\ Len(data) >= 2
    /\ NoImage(processor, data[1].doc)
    /\ skipped = <<1>>
    /\ Len(yielded) = 1
    /\ yielded[1].src = 2

\* the inputs resolved: skipped, or yielded and resumed by the consumer
Resolved == Len(skipped) + Len(yielded) - (IF pc = "yielded" THEN 1 ELSE 0)

\* C10: the adapter is lazy with at most one input in flight: nothing is
\* pulled before the first next(), an input is pulled only when every earlier
\* one is resolved, the inputs consumed exceed the inputs resolved by at most
\* one, and once the consumer stops pulling no input is consumed.
C10_OneInFlight ==
    /\ [](pc = "start" => pos = 0)
    /\ [](pos - Resolved \in {0, 1})
    /\ [][pos' # pos => (pos = Resolved /\ pos' = pos + 1)]_vars
    /\ [][stopped => pos' = pos]_vars

\* the consumer stopped after the second result with input left over
C10_Witness ==
    /\ stopped
    /\ pc = "yielded"
    /\ pos = 2
    /\ Len(yielded) = 2
    /\ Len(data) > 2

(***************************************************************************)
(* pytorch_worker_seed.  A job runs world_size ranks with num_workers      *)
(* workers each; the launcher exports RANK, WORLD_SIZE, WORKER and         *)
(* NUM_WORKERS (each may be missing) to every process, and inside a        *)
(* dataloader worker torch's get_worker_info() gives the worker context.   *)
(***************************************************************************)
Digits == <<"0", "1", "2", "3", "4", "5", "6", "7", "8", "9">>

DigitValue(c) == CHOOSE d \in 0..9 : Digits[d + 1] = c

\* str(n), the way a launcher writes an environment variable
RECURSIVE IntToStr(_)
IntToStr(n) ==
    IF n < 10 THEN <<Digits[n + 1]>>
    ELSE Append(IntToStr(n \div 10), Digits[(n % 10) + 1])

\* int(os.environ[...])
RECURSIVE ParseInt(_)
ParseInt(s) ==
    IF Len(s) = 1 THEN DigitValue(s[1])
    ELSE 10 * ParseInt(SubSeq(s, 1, Len(s) - 1)) + DigitValue(s[Len(s)])

Max(a, b) == IF a >= b THEN a ELSE b

RankStride == 1024
IncrementStride == 1024

Jobs ==
    [world_size : 1..MaxWorld,
     num_workers : 1..MaxWorkers,
     exported : SUBSET {"RANK", "WORLD_SIZE", "WORKER", "NUM_WORKERS"},
     in_worker : BOOLEAN,
     base_seed : {7}]

\* os.environ of the process (rank, worker) of a job
EnvironOf(job, rank, worker) ==
    [n \in job.exported |->
        CASE n = "RANK" -> IntToStr(rank)
          [] n = "WORLD_SIZE" -> IntToStr(job.world_size)
          [] n = "WORKER" -> IntToStr(worker)
          [] n = "NUM_WORKERS" -> IntToStr(job.num_workers)]

\* get_worker_info(): None outside a dataloader worker; torch seeds
\* worker i with base_seed + i
WorkerInfoOf(job, worker) ==
    IF job.in_worker
    THEN <<[seed |-> job.base_seed + worker, num_workers |-> job.num_workers]>>
    ELSE <<>>

\* increment.get_value() if isinstance(increment, SharedCount) else increment
IncrementValue(increment) == increment.value

\* pytorch_worker_seed(increment)
pytorch_worker_seed(env, worker_info, increment) ==
    LET increment_value == IncrementValue(increment)
    IN IF worker_info # <<>>
       THEN worker_info[1].seed
            + (IF increment_value # 0
               THEN increment_value * Max(1, worker_info[1].num_workers)
               ELSE 0)
       ELSE
         LET dist == "RANK" \in DOMAIN env /\ "WORLD_SIZE" \in DOMAIN env
             work == "WORKER" \in DOMAIN env /\ "NUM_WORKERS" \in DOMAIN env
             rank == IF dist THEN ParseInt(env["RANK"]) ELSE 0
             world_size == IF dist THEN ParseInt(env["WORLD_SIZE"]) ELSE 1
             worker == IF work THEN ParseInt(env["WORKER"]) ELSE 0
             num_workers == IF work THEN ParseInt(env["NUM_WORKERS"]) ELSE 1
         IN rank * Max(RankStride, world_size) + worker
            + (IF increment_value # 0
               THEN increment_value * Max(IncrementStride, num_workers)
               ELSE 0)

Increments ==
    [kind : {"int", "SharedCount"}, value : 0..MaxIncrement]

SeedInit ==
    /\ environ \in Jobs
    /\ seeds = {}
    /\ IdleDoc
    /\ IdleStream
    /\ IdleUrls

\* the process (rank, worker) of the job calls pytorch_worker_seed(increment)
SeedCall ==
    /\ Cardinality(seeds) < MaxCalls
    /\ \E rank \in 0..(environ.world_size - 1),
          worker \in 0..(environ.num_workers - 1),
          increment \in Increments :
          seeds' = seeds \cup
             {[rank |-> rank, worker |-> worker, increment |-> increment.value,
               seed |-> pytorch_worker_seed(EnvironOf(environ, rank, worker),
                                          WorkerInfoOf(environ, worker),
                                          increment)]}
    /\ UNCHANGED <<environ, docVars, streamVars, urlcall>>

SeedNext == SeedCall

SpecSeed == SeedInit /\ [][SeedNext]_vars

\* C8 (as claimed): on the fallback path (no worker context, all four
\* variables exported) no two distinct (rank, worker, increment) triples of
\* a job get the same seed.
C8_NoSeedCollision ==
    (~environ.in_worker
     /\ environ.exported = {"RANK", "WORLD_SIZE", "WORKER", "NUM_WORKERS"}) =>
        \A a \in seeds, b \in seeds :
            (<<a.rank, a.worker, a.increment>> # <<b.rank, b.worker, b.increment>>) =>
                a.seed # b.seed

(***************************************************************************)
(* expand_urls.                                                            *)
(***************************************************************************)
Colons == <<":", ":">>

IsDigit(c) == \E d \in 1..10 : Digits[d] = c

\* the index of the first c in s at or after i, 0 if there is none
RECURSIVE IndexFrom(_, _, _)
IndexFrom(s, c, i) ==
    IF i > Len(s) THEN 0
    ELSE IF s[i] = c THEN i
    ELSE IndexFrom(s, c, i + 1)

\* the numbers from a to b, counting up or down
RECURSIVE Range(_, _)
Range(a, b) ==
    IF a = b THEN <<a>>
    ELSE <<a>> \o Range(IF a < b THEN a + 1 ELSE a - 1, b)

\* what a brace group's body stands for: a,b  or  m..n ;  <<>> if neither
Alternatives(body) ==
    IF IndexFrom(body, ",", 1) # 0 THEN Split(body, <<",">>)
    ELSE IF /\ Len(body) = 4
            /\ IsDigit(body[1]) /\ body[2] = "." /\ body[3] = "." /\ IsDigit(body[4])
         THEN LET r == Range(DigitValue(body[1]), DigitValue(body[4]))
              IN [k \in 1..Len(r) |-> IntToStr(r[k])]
         ELSE <<>>

\* every x \o y, x from xs and y from ys, the x varying slowest
RECURSIVE Product(_, _)
Product(xs, ys) ==
    IF Len(xs) = 0 THEN <<>>
    ELSE [k \in 1..Len(ys) |-> xs[1] \o ys[k]] \o Product(Tail(xs), ys)

\* list(braceexpand.braceexpand(url)), for patterns without nested braces
RECURSIVE braceexpand(_)
braceexpand(url) ==
    LET open == IndexFrom(url, "{", 1)
        close == IF open = 0 THEN 0 ELSE IndexFrom(url, "}", open + 1)
    IN IF open = 0 \/ close = 0 THEN <<url>>
       ELSE
         LET prefix == SubSeq(url, 1, open - 1)
             alts == Alternatives(SubSeq(url, open + 1, close - 1))
             rest == braceexpand(SubSeq(url, close + 1, Len(url)))
         IN IF alts = <<>>
            THEN Product(<<SubSeq(url, 1, close)>>, rest)
            ELSE Product([k \in 1..Len(alts) |-> prefix \o alts[k]], rest)

RECURSIVE Flatten(_)
Flatten(lists) ==
    IF Len(lists) = 0 THEN <<>> ELSE lists[1] \o Flatten(Tail(lists))

\* float(weight), for the numerals written with digits only
ParseFloat(token) ==
    IF Len(token) > 0 /\ \A k \in 1..Len(token) : IsDigit(token[k])
    THEN [exc |-> "none", value |-> ParseInt(token)]
    ELSE [exc |-> "ValueError", value |-> 0]

\* wds.shardlists.expand_urls(urls)
WdsExpandUrls(urls) ==
    IF urls.is_str
    THEN LET urllist == Split(urls.chars, Colons)
         IN Flatten([k \in 1..Len(urllist) |-> braceexpand(urllist[k])])
    ELSE urls.list

UrlsRaised(exc) ==
    [called |-> TRUE, exc |-> exc, urls |-> <<>>, has_weights |-> FALSE, weights |-> <<>>]

UrlsReturned(urls, has_weights, weights) ==
    [called |-> TRUE, exc |-> "none", urls |-> urls,
     has_weights |-> has_weights, weights |-> weights]

\* weights = [float(weight) ...] and the loop over zip(urllist, weights)
ZipExpand(urllist, tokens) ==
    LET n == IF Len(urllist) < Len(tokens) THEN Len(urllist) ELSE Len(tokens)
        parsed == [k \in 1..Len(tokens) |-> ParseFloat(tokens[k])]
        expanded == [k \in 1..n |-> braceexpand(urllist[k])]
    IN IF \E k \in 1..Len(tokens) : parsed[k].exc # "none"
       THEN UrlsRaised("ValueError")
       ELSE UrlsReturned(
              Flatten(expanded),
              TRUE,
              Flatten([k \in 1..n |->
                          [m \in 1..Len(expanded[k]) |-> parsed[k].value]]))

\* the str branch without its assert: zip() drops the surplus
ExpandStrNoAssert(urls, weights) ==
    ZipExpand(Split(urls.chars, Colons), Split(weights.chars, Colons))

\* the str branch of expand_urls
ExpandStr(urls, weights) ==
    LET urllist == Split(urls.chars, Colons)
        tokens == Split(weights.chars, Colons)
    IN IF Len(tokens) # Len(urllist) THEN UrlsRaised("AssertionError")
       ELSE ZipExpand(urllist, tokens)

\* expand_urls(urls, weights)
expand_urls(urls, weights) ==
    IF weights.kind = "None" THEN UrlsReturned(WdsExpandUrls(urls), FALSE, <<>>)
    ELSE IF urls.is_str
    THEN IF weights.kind # "str" THEN UrlsRaised("AttributeError")
         ELSE ExpandStr(urls, weights)
    ELSE UrlsReturned(urls.list, TRUE,
                      IF weights.kind = "str" THEN weights.chars ELSE weights.list)

(***************************************************************************)
(* SpecUrls: expand_urls is called on a `::`-joined list of url patterns   *)
(* and a `::`-joined list of weights.  Each pattern and each weight is     *)
(* listed with its meaning: the urls the pattern stands for, the number    *)
(* the numeral denotes.                                                    *)
(***************************************************************************)
Chars1(a) == <<a>>
Chars2(a, b) == <<a, b>>

UrlPatterns ==
    {[chars |-> <<"a", "{", "1", ".", ".", "2", "}">>,
      expands |-> <<Chars2("a", "1"), Chars2("a", "2")>>],
     [chars |-> <<"b">>,
      expands |-> <<Chars1("b")>>],
     [chars |-> <<"b", "{", "1", ".", ".", "2", "}">>,
      expands |-> <<Chars2("b", "1"), Chars2("b", "2")>>],
     [chars |-> <<"s", ":", "{", "x", ",", "y", "}">>,
      expands |-> <<<<"s", ":", "x">>, <<"s", ":", "y">>>>],
     [chars |-> <<"{", "x", ",", "y", "}", "{", "2", ".", ".", "1", "}">>,
      expands |-> <<Chars2("x", "2"), Chars2("x", "1"),
                    Chars2("y", "2"), Chars2("y", "1")>>]}

WeightNumerals ==
    {[chars |-> <<"2">>, value |-> 2],
     [chars |-> <<"3">>, value |-> 3],
     [chars |-> <<"0", "2">>, value |-> 2]}

SeqsUpTo(S, lo, hi) == UNION {[1..n -> S] : n \in lo..hi}

UrlArgs ==
    {[groups |-> g, is_str |-> b,
      chars |-> IF b THEN Join([k \in 1..Len(g) |-> g[k].chars], Colons) ELSE <<>>,
      list |-> IF b THEN <<>> ELSE [k \in 1..Len(g) |-> g[k].chars]] :
        g \in SeqsUpTo(UrlPatterns, 1, MaxGroups), b \in BOOLEAN}

WeightArgs ==
    {[numerals |-> <<>>, kind |-> "None", chars |-> <<>>, list |-> <<>>]}
    \cup {[numerals |-> w, kind |-> "str",
           chars |-> Join([k \in 1..Len(w) |-> w[k].chars], Colons),
           list |-> <<>>] :
            w \in SeqsUpTo(WeightNumerals, 1, MaxGroups + 1)}
    \cup {[numerals |-> w, kind |-> "list", chars |-> <<>>,
           list |-> [k \in 1..Len(w) |-> w[k].value]] :
            w \in SeqsUpTo(WeightNumerals, 1, 1)}

NoUrlsOutcome ==
    [called |-> FALSE, exc |-> "none", urls |-> <<>>, has_weights |-> FALSE, weights |-> <<>>]

UrlsInit ==
    /\ \E u \in UrlArgs, w \in WeightArgs :
          urlcall = [urls |-> u, weights |-> w, out |-> NoUrlsOutcome]
    /\ IdleDoc
    /\ IdleStream
    /\ IdleSeed

\* out = expand_urls(urls, weights)
ExpandUrlsCall ==
    /\ ~urlcall.out.called
    /\ urlcall' = [urlcall EXCEPT !.out = expand_urls(urlcall.urls, urlcall.weights)]
    /\ UNCHANGED <<docVars, streamVars, seedVars>>

UrlsNext == ExpandUrlsCall

SpecUrls == UrlsInit /\ [][UrlsNext]_vars

\* C9: for a `::`-joined url string and a `::`-joined string of numerals,
\* expand_urls fails when the groups and the weights differ in number;
\* otherwise it returns urls and weights of equal length, the urls the
\* groups' expansions one after the other in group order, each with the
\* weight of its group.
C9_ExpandUrlsWeights ==
    (urlcall.out.called /\ urlcall.urls.is_str /\ urlcall.weights.kind = "str") =>
        LET groups == urlcall.urls.groups
            numerals == urlcall.weights.numerals
            out == urlcall.out
        IN IF Len(groups) # Len(numerals)
           THEN out.exc = "AssertionError"
           ELSE /\ out.exc = "none"
                /\ out.has_weights
                /\ Len(out.urls) = Len(out.weights)
                /\ out.urls = Flatten([k \in 1..Len(groups) |-> groups[k].expands])
                /\ out.weights =
                     Flatten([k \in 1..Len(groups) |->
                                 [m \in 1..Len(groups[k].expands) |-> numerals[k].value]])

\* "a{1..2}::b{1..2}" with "2::3": a1, a2, b1, b2 with weights 2, 2, 3, 3
C9_Witness ==
    /\ urlcall.out.called
    /\ urlcall.urls.is_str
    /\ urlcall.urls.chars =
          <<"a", "{", "1", ".", ".", "2", "}", ":", ":",
            "b", "{", "1", ".", ".", "2", "}">>
    /\ urlcall.weights.kind = "str"
    /\ urlcall.weights.chars = <<"2", ":", ":", "3">>
    /\ urlcall.out.urls = <<Chars2("a", "1"), Chars2("a", "2"),
                            Chars2("b", "1"), Chars2("b", "2")>>
    /\ urlcall.out.weights = <<2, 2, 3, 3>>

====
